---- MODULE Spec2Model ----
(***************************************************************************)
(* RF serial controller: the serial handler (connection state machine,     *)
(* error classification, send protocol) of src/rf_serial_gui.              *)
(*                                                                         *)
(* Text is a sequence of one-character strings, so that lower(), "in",     *)
(* str(), encode() and string concatenation are computed and not assumed.  *)
(***************************************************************************)
EXTENDS Integers, Sequences, FiniteSets, TLC

VARIABLES
    port,             \* SerialHandler.port
    serial,           \* SerialHandler._serial (None, or the transport handle)
    status,           \* SerialHandler._status
    error_message,    \* SerialHandler._error_message
    status_callback,  \* SerialHandler._status_callback is set
    trace,            \* what the last operation did: callbacks and transport calls, in order
    ret,              \* how the last operation ended: its return value, or the exception it let out
    lastOp,           \* the last operation called
    lastArg,          \* the value send() was called with (0 for the other operations)
    input_var,        \* RFSerialGUI.input_var: the text of the input field
    input_valid,      \* RFSerialGUI._input_valid
    validation_var,   \* RFSerialGUI.validation_var: the validation message shown
    abandoned,        \* a transport the handler opened is open and no longer referenced
    is_sending,       \* RFSerialGUI._is_sending
    feedback_var,     \* RFSerialGUI.feedback_var: the feedback message shown
    updating,         \* the click handlers that are inside root.update(), the innermost last
    is_windows        \* RFSerialGUI._is_windows

vars ==
    <<port, serial, status, error_message, status_callback, trace, ret, lastOp, lastArg,
      input_var, input_valid, validation_var, abandoned, is_sending, feedback_var, updating,
      is_windows>>

-----------------------------------------------------------------------------
(* Bounds of the model.                                                    *)

\* under SpecSendRange send() is called with every integer in -MaxNegative..MaxSendValue
MaxSendValue == 101
MaxNegative == 1
\* a write may report up to this many bytes more than it was given
MaxOverWrite == 1
\* the input field holds every text of up to MaxInputLen characters of InputChars,
MaxInputLen == 3
\* the decimal text of every integer in MIN_VALUE - MaxBelow..MAX_VALUE + MaxAbove,
MaxBelow == 120
MaxAbove == 1000
\* with up to MaxLeadingZeros zeros before its digits,
MaxLeadingZeros == 2
\* and values with up to MaxPad characters of whitespace on either side
MaxPad == 1

-----------------------------------------------------------------------------
(* config.py                                                               *)

MIN_VALUE == 0
MAX_VALUE == 100
DEFAULT_VALUE == 0

\* "/dev/ttyUSB2"
PortLinux ==
    <<"/", "d", "e", "v", "/", "t", "t", "y", "U", "S", "B", "2">>
\* "COM3"
PortWindows ==
    <<"C", "O", "M", "3">>

SERIAL_PORT == {PortLinux, PortWindows}

-----------------------------------------------------------------------------
(* ConnectionStatus                                                        *)

DISCONNECTED == "Disconnected"
CONNECTING == "Connecting..."
CONNECTED == "Connected"
ERROR == "Error"

ConnectionStatus == {DISCONNECTED, CONNECTING, CONNECTED, ERROR}

-----------------------------------------------------------------------------
(* Python's str operations on text.                                        *)

EmptyText == <<>>

UpperCase ==
    <<"A", "B", "C", "D", "E", "F", "G", "H", "I", "J", "K", "L", "M",
      "N", "O", "P", "Q", "R", "S", "T", "U", "V", "W", "X", "Y", "Z">>

LowerCase ==
    <<"a", "b", "c", "d", "e", "f", "g", "h", "i", "j", "k", "l", "m",
      "n", "o", "p", "q", "r", "s", "t", "u", "v", "w", "x", "y", "z">>

\* c.lower() of one character
LowerChar(c) ==
    IF \E i \in 1..Len(UpperCase) : UpperCase[i] = c
    THEN LowerCase[CHOOSE i \in 1..Len(UpperCase) : UpperCase[i] = c]
    ELSE c

\* s.lower()
Lower(s) == [i \in 1..Len(s) |-> LowerChar(s[i])]

\* needle in s
Contains(s, needle) ==
    \E i \in 0..(Len(s) - Len(needle)) :
        \A j \in 1..Len(needle) : s[i + j] = needle[j]

DigitChars == <<"0", "1", "2", "3", "4", "5", "6", "7", "8", "9">>

RECURSIVE NatStr(_)
\* str(n) of n >= 0: its decimal digits, most significant first
NatStr(n) ==
    IF n < 10 THEN <<DigitChars[n + 1]>>
    ELSE Append(NatStr(n \div 10), DigitChars[(n % 10) + 1])

\* str(value) padded with zeros to three digits, as "%03d" gives (mutant)
StrZeroPadded(value) ==
    IF value < 0 THEN <<"-">> \o NatStr(-value)
    ELSE IF value < 10 THEN <<"0", "0">> \o NatStr(value)
    ELSE IF value < 100 THEN <<"0">> \o NatStr(value)
    ELSE NatStr(value)

\* str(value) of an int
Str(value) == IF value < 0 THEN <<"-">> \o NatStr(-value) ELSE NatStr(value)

\* ord(c) of the characters str(int) produces
Ord(c) ==
    IF c = "-" THEN 45
    ELSE 47 + (CHOOSE i \in 1..Len(DigitChars) : DigitChars[i] = c)

\* ascii_string.encode(ENCODING): ISO-8859-1 gives one byte per character, its code point
Encode(s) == [i \in 1..Len(s) |-> Ord(s[i])]

-----------------------------------------------------------------------------
(* The literals of serial_handler.py.                                      *)

\* "no such file"
NeedleNoSuchFile ==
    <<"n", "o", " ", "s", "u", "c", "h", " ", "f", "i", "l", "e">>
\* "not found"
NeedleNotFound ==
    <<"n", "o", "t", " ", "f", "o", "u", "n", "d">>
\* "permission denied"
NeedlePermissionDenied ==
    <<"p", "e", "r", "m", "i", "s", "s", "i", "o", "n", " ", "d", "e", "n", "i", "e", "d">>
\* "access is denied"
NeedleAccessIsDenied ==
    <<"a", "c", "c", "e", "s", "s", " ", "i", "s", " ", "d", "e", "n", "i", "e", "d">>
\* "Serial port "
MsgSerialPortPrefix ==
    <<"S", "e", "r", "i", "a", "l", " ", "p", "o", "r", "t", " ">>
\* " not found"
MsgNotFoundSuffix ==
    <<" ", "n", "o", "t", " ", "f", "o", "u", "n", "d">>
\* "Permission denied. Check port access rights"
MsgPermissionDenied ==
    <<"P", "e", "r", "m", "i", "s", "s", "i", "o", "n", " ", "d", "e", "n", "i", "e", "d", ".", " ", "C", "h", "e", "c", "k", " ", "p", "o", "r", "t", " ", "a", "c", "c", "e", "s", "s", " ", "r", "i", "g", "h", "t", "s">>
\* "Port is in use by another application"
MsgPortInUse ==
    <<"P", "o", "r", "t", " ", "i", "s", " ", "i", "n", " ", "u", "s", "e", " ", "b", "y", " ", "a", "n", "o", "t", "h", "e", "r", " ", "a", "p", "p", "l", "i", "c", "a", "t", "i", "o", "n">>
\* "Error: Not connected to serial port"
MsgNotConnected ==
    <<"E", "r", "r", "o", "r", ":", " ", "N", "o", "t", " ", "c", "o", "n", "n", "e", "c", "t", "e", "d", " ", "t", "o", " ", "s", "e", "r", "i", "a", "l", " ", "p", "o", "r", "t">>
\* "Sent: "
MsgSentPrefix ==
    <<"S", "e", "n", "t", ":", " ">>
\* "Error: Incomplete transmission"
MsgIncomplete ==
    <<"E", "r", "r", "o", "r", ":", " ", "I", "n", "c", "o", "m", "p", "l", "e", "t", "e", " ", "t", "r", "a", "n", "s", "m", "i", "s", "s", "i", "o", "n">>
\* "Error: "
MsgErrorPrefix ==
    <<"E", "r", "r", "o", "r", ":", " ">>

-----------------------------------------------------------------------------
(* The transport (serial.Serial): what open, close and write may do.       *)

\* "could not open port: No such file"
ErrNoSuchFile ==
    <<"c", "o", "u", "l", "d", " ", "n", "o", "t", " ", "o", "p", "e", "n", " ", "p", "o", "r", "t", ":", " ", "N", "o", " ", "s", "u", "c", "h", " ", "f", "i", "l", "e">>
\* "Permission denied"
ErrPermission ==
    <<"P", "e", "r", "m", "i", "s", "s", "i", "o", "n", " ", "d", "e", "n", "i", "e", "d">>
\* "Port not found"
ErrPortNotFound ==
    <<"P", "o", "r", "t", " ", "n", "o", "t", " ", "f", "o", "u", "n", "d">>
\* "Access is denied."
ErrAccess ==
    <<"A", "c", "c", "e", "s", "s", " ", "i", "s", " ", "d", "e", "n", "i", "e", "d", ".">>
\* "Permission denied: not found"
ErrPermissionNotFound ==
    <<"P", "e", "r", "m", "i", "s", "s", "i", "o", "n", " ", "d", "e", "n", "i", "e", "d", ":", " ", "n", "o", "t", " ", "f", "o", "u", "n", "d">>
\* "Access is denied (permission denied)"
ErrAccessPermission ==
    <<"A", "c", "c", "e", "s", "s", " ", "i", "s", " ", "d", "e", "n", "i", "e", "d", " ", "(", "p", "e", "r", "m", "i", "s", "s", "i", "o", "n", " ", "d", "e", "n", "i", "e", "d", ")">>
\* "Device busy"
ErrBusy ==
    <<"D", "e", "v", "i", "c", "e", " ", "b", "u", "s", "y">>
\* "Write timeout"
ErrWriteTimeout ==
    <<"W", "r", "i", "t", "e", " ", "t", "i", "m", "e", "o", "u", "t">>

\* the error texts serial.Serial(...) may raise with
OpenErrorTexts ==
    {ErrNoSuchFile, ErrPermission, ErrPortNotFound, ErrAccess,
     ErrPermissionNotFound, ErrAccessPermission, ErrBusy, EmptyText}

\* the error texts write may raise with
WriteErrorTexts == {ErrWriteTimeout}

\* the exception classes connect() and send() tell apart
SerialException == "SerialException"
OtherException == "Exception"
ExceptionKinds == {SerialException, OtherException}

NoError == [kind |-> "none", text |-> EmptyText]

\* serial.Serial(port=...) returns an open handle or raises
OpenOutcomes ==
    {[ok |-> TRUE, error |-> NoError]}
    \cup {[ok |-> FALSE, error |-> [kind |-> k, text |-> t]] :
            k \in ExceptionKinds, t \in OpenErrorTexts}

\* close() returns, the handle closed
CloseReturns == [ok |-> TRUE, error |-> NoError, is_open |-> FALSE]

\* close() raises, leaving the handle open or closed
CloseRaises ==
    {[ok |-> FALSE, error |-> [kind |-> k, text |-> ErrBusy], is_open |-> o] :
        k \in ExceptionKinds, o \in BOOLEAN}

CloseOutcomes == {CloseReturns} \cup CloseRaises

\* write(data) returns a byte count or raises
WriteOutcomes(data) ==
    {[ok |-> TRUE, error |-> NoError, written |-> n] :
            n \in 0..(Len(data) + MaxOverWrite)}
    \cup {[ok |-> FALSE, error |-> [kind |-> k, text |-> t], written |-> 0] :
            k \in ExceptionKinds, t \in WriteErrorTexts}

\* self._serial
None == [present |-> FALSE, is_open |-> FALSE]
OpenHandle == [present |-> TRUE, is_open |-> TRUE]
ClosedHandle == [present |-> TRUE, is_open |-> FALSE]

-----------------------------------------------------------------------------
(* What an operation did, in order.                                        *)

NoSeen == [status |-> "", error_message |-> EmptyText, connected |-> FALSE]

\* the status callback called with (s, msg); seen is the handler as the callback finds it
NotifyEv(s, msg, seen) ==
    [ev |-> "notify", status |-> s, message |-> msg, seen |-> seen,
     port |-> EmptyText, data |-> <<>>, ok |-> TRUE, error |-> NoError, written |-> 0]

\* serial.Serial(port=p, ...) called
OpenEv(p, o) ==
    [ev |-> "open", status |-> "", message |-> EmptyText, seen |-> NoSeen,
     port |-> p, data |-> <<>>, ok |-> o.ok, error |-> o.error, written |-> 0]

\* self._serial.close() called
CloseEv(c) ==
    [ev |-> "close", status |-> "", message |-> EmptyText, seen |-> NoSeen,
     port |-> EmptyText, data |-> <<>>, ok |-> c.ok, error |-> c.error, written |-> 0]

\* self._serial.write(data) called
WriteEv(data, w) ==
    [ev |-> "write", status |-> "", message |-> EmptyText, seen |-> NoSeen,
     port |-> EmptyText, data |-> data, ok |-> w.ok, error |-> w.error,
     written |-> w.written]

\* how an operation ended
Returned(v, msg) == [raised |-> FALSE, value |-> v, message |-> msg]
Raised(e) == [raised |-> TRUE, value |-> "None", message |-> e.text]

-----------------------------------------------------------------------------
(* SerialHandler. Each method is a function of the handler m (a record of  *)
(* its fields, with the trace and the result of the call) and of what the  *)
(* transport does when called.                                             *)

\* is_connected()
IsConnected(m) == m.serial.present /\ m.serial.is_open

\* _update_status that does not report CONNECTING (mutant)
UpdateStatusSkipsConnecting(m, s, msg) ==
    LET m1 == [m EXCEPT !.status = s, !.error_message = msg]
        seen == [status |-> m1.status, error_message |-> m1.error_message,
                 connected |-> m1.serial.present /\ m1.serial.is_open]
    IN  IF m1.status_callback /\ s # CONNECTING
        THEN [m1 EXCEPT !.trace = Append(@, NotifyEv(s, msg, seen))]
        ELSE m1

\* _update_status that keeps the old message when given an empty one (mutant)
UpdateStatusKeepsMessage(m, s, msg) ==
    LET m1 == [m EXCEPT !.status = s,
                        !.error_message = IF msg = EmptyText THEN @ ELSE msg]
        seen == [status |-> m1.status, error_message |-> m1.error_message,
                 connected |-> m1.serial.present /\ m1.serial.is_open]
    IN  IF m1.status_callback
        THEN [m1 EXCEPT !.trace = Append(@, NotifyEv(s, msg, seen))]
        ELSE m1

\* _update_status(status, message)
UpdateStatus(m, s, msg) ==
    LET m1 == [m EXCEPT !.status = s, !.error_message = msg]
        seen == [status |-> m1.status, error_message |-> m1.error_message,
                 connected |-> IsConnected(m1)]
    IN  IF m1.status_callback
        THEN [m1 EXCEPT !.trace = Append(@, NotifyEv(s, msg, seen))]
        ELSE m1

\* _get_error_message that tests "permission denied" first (mutant)
GetErrorMessagePermissionFirst(m, text) ==
    LET error_str == Lower(text)
    IN  IF Contains(error_str, NeedlePermissionDenied)
        THEN MsgPermissionDenied
        ELSE IF Contains(error_str, NeedleNoSuchFile) \/ Contains(error_str, NeedleNotFound)
        THEN MsgSerialPortPrefix \o m.port \o MsgNotFoundSuffix
        ELSE IF Contains(error_str, NeedleAccessIsDenied)
        THEN MsgPortInUse
        ELSE text

\* _get_error_message(exception)
GetErrorMessage(m, text) ==
    LET error_str == Lower(text)
    IN  IF Contains(error_str, NeedleNoSuchFile) \/ Contains(error_str, NeedleNotFound)
        THEN MsgSerialPortPrefix \o m.port \o MsgNotFoundSuffix
        ELSE IF Contains(error_str, NeedlePermissionDenied)
        THEN MsgPermissionDenied
        ELSE IF Contains(error_str, NeedleAccessIsDenied)
        THEN MsgPortInUse
        ELSE text

\* connect() whose generic except branch forgets the ERROR status (mutant)
ConnectLeavesConnecting(m, o) ==
    LET m1 == UpdateStatus(m, CONNECTING, EmptyText)
        m2 == [m1 EXCEPT !.trace = Append(@, OpenEv(m1.port, o))]
    IN  IF o.ok
        THEN [UpdateStatus([m2 EXCEPT !.serial = OpenHandle], CONNECTED, EmptyText)
                EXCEPT !.ret = Returned("True", EmptyText)]
        ELSE IF o.error.kind = SerialException
        THEN LET m3 == [m2 EXCEPT !.serial = None]
             IN  [UpdateStatus(m3, ERROR, GetErrorMessage(m3, o.error.text))
                    EXCEPT !.ret = Returned("False", EmptyText)]
        ELSE [m2 EXCEPT !.serial = None, !.ret = Returned("False", EmptyText)]

\* connect() that reports ERROR before it drops the handle (mutant)
ConnectNotifiesBeforeRelease(m, o) ==
    LET m1 == UpdateStatus(m, CONNECTING, EmptyText)
        m2 == [m1 EXCEPT !.trace = Append(@, OpenEv(m1.port, o))]
    IN  IF o.ok
        THEN [UpdateStatus([m2 EXCEPT !.serial = OpenHandle], CONNECTED, EmptyText)
                EXCEPT !.ret = Returned("True", EmptyText)]
        ELSE IF o.error.kind = SerialException
        THEN [UpdateStatus(m2, ERROR, GetErrorMessage(m2, o.error.text))
                EXCEPT !.serial = None, !.ret = Returned("False", EmptyText)]
        ELSE [UpdateStatus(m2, ERROR, o.error.text)
                EXCEPT !.serial = None, !.ret = Returned("False", EmptyText)]

\* connect() that goes back to DISCONNECTED when the open fails (mutant)
ConnectResetsOnFailure(m, o) ==
    LET m1 == UpdateStatus(m, CONNECTING, EmptyText)
        m2 == [m1 EXCEPT !.trace = Append(@, OpenEv(m1.port, o))]
    IN  IF o.ok
        THEN [UpdateStatus([m2 EXCEPT !.serial = OpenHandle], CONNECTED, EmptyText)
                EXCEPT !.ret = Returned("True", EmptyText)]
        ELSE [UpdateStatus([m2 EXCEPT !.serial = None], DISCONNECTED, EmptyText)
                EXCEPT !.ret = Returned("False", EmptyText)]

\* connect(); o is what serial.Serial(...) does
Connect(m, o) ==
    LET m1 == UpdateStatus(m, CONNECTING, EmptyText)
        m2 == [m1 EXCEPT !.trace = Append(@, OpenEv(m1.port, o))]
    IN  IF o.ok
        THEN [UpdateStatus([m2 EXCEPT !.serial = OpenHandle], CONNECTED, EmptyText)
                EXCEPT !.ret = Returned("True", EmptyText)]
        ELSE IF o.error.kind = SerialException
        THEN LET m3 == [m2 EXCEPT !.serial = None]
             IN  [UpdateStatus(m3, ERROR, GetErrorMessage(m3, o.error.text))
                    EXCEPT !.ret = Returned("False", EmptyText)]
        ELSE [UpdateStatus([m2 EXCEPT !.serial = None], ERROR, o.error.text)
                EXCEPT !.ret = Returned("False", EmptyText)]

\* disconnect() that reports DISCONNECTED once the handle is dropped (mutant)
DisconnectNotifies(m, c) ==
    IF m.serial.present /\ m.serial.is_open
    THEN LET m1 == [m EXCEPT !.trace = Append(@, CloseEv(c))]
         IN  IF c.ok
             THEN [UpdateStatus([m1 EXCEPT !.serial = None], DISCONNECTED, EmptyText)
                    EXCEPT !.ret = Returned("None", EmptyText)]
             ELSE [m1 EXCEPT !.serial = [present |-> TRUE, is_open |-> c.is_open],
                             !.ret = Raised(c.error)]
    ELSE [UpdateStatus([m EXCEPT !.serial = None], DISCONNECTED, EmptyText)
            EXCEPT !.ret = Returned("None", EmptyText)]

\* disconnect(); c is what close() does, when it is called
Disconnect(m, c) ==
    IF m.serial.present /\ m.serial.is_open
    THEN LET m1 == [m EXCEPT !.trace = Append(@, CloseEv(c))]
         IN  IF c.ok
             THEN [m1 EXCEPT !.serial = None, !.ret = Returned("None", EmptyText)]
             ELSE [m1 EXCEPT !.serial = [present |-> TRUE, is_open |-> c.is_open],
                             !.ret = Raised(c.error)]
    ELSE [m EXCEPT !.serial = None, !.ret = Returned("None", EmptyText)]

\* retry() that connects again without disconnecting first (mutant)
RetryWithoutDisconnect(m, c, o) == Connect(m, o)

\* retry()
Retry(m, c, o) ==
    LET m1 == Disconnect(m, c)
    IN  IF m1.ret.raised THEN m1 ELSE Connect(m1, o)

\* send() that tests only that a handle is referenced (mutant)
SendChecksReferenceOnly(m, value, w) ==
    IF ~m.serial.present
    THEN [m EXCEPT !.ret = Returned("False", MsgNotConnected)]
    ELSE LET ascii_string == Str(value)
             encoded_data == Encode(ascii_string)
             m1 == [m EXCEPT !.trace = Append(@, WriteEv(encoded_data, w))]
         IN  IF ~w.ok
             THEN [m1 EXCEPT !.ret = Returned("False", MsgErrorPrefix \o w.error.text)]
             ELSE IF w.written = Len(encoded_data)
             THEN [m1 EXCEPT !.ret = Returned("True", MsgSentPrefix \o Str(value))]
             ELSE [m1 EXCEPT !.ret = Returned("False", MsgIncomplete)]

\* send() that takes any non-zero byte count for success (mutant)
SendAcceptsShortWrite(m, value, w) ==
    IF ~IsConnected(m)
    THEN [m EXCEPT !.ret = Returned("False", MsgNotConnected)]
    ELSE LET ascii_string == Str(value)
             encoded_data == Encode(ascii_string)
             m1 == [m EXCEPT !.trace = Append(@, WriteEv(encoded_data, w))]
         IN  IF ~w.ok
             THEN [m1 EXCEPT !.ret = Returned("False", MsgErrorPrefix \o w.error.text)]
             ELSE IF w.written > 0
             THEN [m1 EXCEPT !.ret = Returned("True", MsgSentPrefix \o Str(value))]
             ELSE [m1 EXCEPT !.ret = Returned("False", MsgIncomplete)]

\* send() that catches SerialException only (mutant)
SendCatchesSerialExceptionOnly(m, value, w) ==
    IF ~IsConnected(m)
    THEN [m EXCEPT !.ret = Returned("False", MsgNotConnected)]
    ELSE LET ascii_string == Str(value)
             encoded_data == Encode(ascii_string)
             m1 == [m EXCEPT !.trace = Append(@, WriteEv(encoded_data, w))]
         IN  IF ~w.ok /\ w.error.kind = SerialException
             THEN [m1 EXCEPT !.ret = Returned("False", MsgErrorPrefix \o w.error.text)]
             ELSE IF ~w.ok
             THEN [m1 EXCEPT !.ret = Raised(w.error)]
             ELSE IF w.written = Len(encoded_data)
             THEN [m1 EXCEPT !.ret = Returned("True", MsgSentPrefix \o Str(value))]
             ELSE [m1 EXCEPT !.ret = Returned("False", MsgIncomplete)]

\* send() that reports a failed write as a connection error (mutant)
SendMarksError(m, value, w) ==
    IF ~IsConnected(m)
    THEN [m EXCEPT !.ret = Returned("False", MsgNotConnected)]
    ELSE LET ascii_string == Str(value)
             encoded_data == Encode(ascii_string)
             m1 == [m EXCEPT !.trace = Append(@, WriteEv(encoded_data, w))]
         IN  IF ~w.ok
             THEN [UpdateStatus(m1, ERROR, w.error.text)
                    EXCEPT !.ret = Returned("False", MsgErrorPrefix \o w.error.text)]
             ELSE IF w.written = Len(encoded_data)
             THEN [m1 EXCEPT !.ret = Returned("True", MsgSentPrefix \o Str(value))]
             ELSE [m1 EXCEPT !.ret = Returned("False", MsgIncomplete)]

\* send(value); w is what write(encoded_data) does, when it is called
Send(m, value, w) ==
    IF ~IsConnected(m)
    THEN [m EXCEPT !.ret = Returned("False", MsgNotConnected)]
    ELSE LET ascii_string == Str(value)
             encoded_data == Encode(ascii_string)
             m1 == [m EXCEPT !.trace = Append(@, WriteEv(encoded_data, w))]
         IN  IF ~w.ok
             THEN [m1 EXCEPT !.ret = Returned("False", MsgErrorPrefix \o w.error.text)]
             ELSE IF w.written = Len(encoded_data)
             THEN [m1 EXCEPT !.ret = Returned("True", MsgSentPrefix \o Str(value))]
             ELSE [m1 EXCEPT !.ret = Returned("False", MsgIncomplete)]

-----------------------------------------------------------------------------
(* Python's str operations validate() and _on_send_click use. Two          *)
(* characters stand for the digits outside ASCII: SuperscriptTwo, which     *)
(* isdigit() accepts and int() rejects, and ArabicIndicThree, which both    *)
(* accept (as 3). A character that has no escape is named by its code       *)
(* point.                                                                   *)

SuperscriptTwo == "SUPERSCRIPT TWO"
ArabicIndicThree == "ARABIC-INDIC DIGIT THREE"

\* the separators U+001C..U+001F: whitespace to strip(), not to int()
FileSeparator == "U+001C"
InformationSeparators == {FileSeparator, "U+001D", "U+001E", "U+001F"}

\* the 29 characters str.isspace() holds of
WhitespaceChars ==
    {"\t", "\n", "U+000B", "\f", "\r", " ", "U+0085", "U+00A0", "U+1680",
     "U+2000", "U+2001", "U+2002", "U+2003", "U+2004", "U+2005", "U+2006",
     "U+2007", "U+2008", "U+2009", "U+200A", "U+2028", "U+2029", "U+202F",
     "U+205F", "U+3000"} \cup InformationSeparators

\* c.isspace(): the characters strip() removes
IsSpaceChar(c) == c \in WhitespaceChars

\* the whitespace int() skips before and after the number
IntSpaceChars == WhitespaceChars \ InformationSeparators

\* c.isdigit()
IsDigitChar(c) ==
    \/ \E i \in 1..Len(DigitChars) : DigitChars[i] = c
    \/ c \in {SuperscriptTwo, ArabicIndicThree}

\* c.isdecimal(): the digits int() reads
IsDecimalChar(c) ==
    \/ \E i \in 1..Len(DigitChars) : DigitChars[i] = c
    \/ c = ArabicIndicThree

\* the value int() gives a decimal digit
DecimalValue(c) ==
    IF c = ArabicIndicThree THEN 3
    ELSE (CHOOSE i \in 1..Len(DigitChars) : DigitChars[i] = c) - 1

RECURSIVE LStrip(_)
\* s.lstrip()
LStrip(s) ==
    IF Len(s) > 0 /\ IsSpaceChar(s[1]) THEN LStrip(Tail(s)) ELSE s

RECURSIVE RStrip(_)
\* s.rstrip()
RStrip(s) ==
    IF Len(s) > 0 /\ IsSpaceChar(s[Len(s)]) THEN RStrip(SubSeq(s, 1, Len(s) - 1)) ELSE s

\* strip() that leaves the whitespace at the end (mutant)
StripLeftOnly(s) == LStrip(s)

\* s.strip()
Strip(s) == RStrip(LStrip(s))

\* s.isdigit()
IsDigit(s) == Len(s) > 0 /\ \A i \in 1..Len(s) : IsDigitChar(s[i])

\* s.startswith("-")
StartsWithMinus(s) == Len(s) > 0 /\ s[1] = "-"

RECURSIVE DigitsValue(_)
\* the number a sequence of decimal digits reads as, digit by digit
DigitsValue(s) ==
    IF Len(s) = 0 THEN 0
    ELSE 10 * DigitsValue(SubSeq(s, 1, Len(s) - 1)) + DecimalValue(s[Len(s)])

\* the number a sequence of decimal digits reads as: the zeros before its
\* first other digit add nothing
DecimalNumber(s) ==
    LET first == CHOOSE i \in 1..(Len(s) + 1) :
                     /\ i = Len(s) + 1 \/ DecimalValue(s[i]) # 0
                     /\ \A j \in 1..(i - 1) : DecimalValue(s[j]) = 0
    IN  DigitsValue(SubSeq(s, first, Len(s)))

ValueError == [ok |-> FALSE, value |-> 0]

\* sys.get_int_max_str_digits(): int() refuses a text of more digits
IntMaxStrDigits == 4300

RECURSIVE IntLStrip(_)
\* s without the whitespace int() skips before the number
IntLStrip(s) ==
    IF Len(s) > 0 /\ s[1] \in IntSpaceChars THEN IntLStrip(Tail(s)) ELSE s

RECURSIVE IntRStrip(_)
\* s without the whitespace int() skips after the number
IntRStrip(s) ==
    IF Len(s) > 0 /\ s[Len(s)] \in IntSpaceChars
    THEN IntRStrip(SubSeq(s, 1, Len(s) - 1)) ELSE s

\* the digits of int()'s argument are decimal digits, with single underscores
\* allowed between two of them
IsGroupedDigits(digits) ==
    /\ Len(digits) > 0
    /\ \A i \in 1..Len(digits) :
        \/ IsDecimalChar(digits[i])
        \/ /\ digits[i] = "_"
           /\ 1 < i
           /\ i < Len(digits)
           /\ IsDecimalChar(digits[i - 1])
           /\ IsDecimalChar(digits[i + 1])

\* int(s): whitespace around, an optional sign, decimal digits with single
\* underscores between them, at most IntMaxStrDigits digits; ValueError otherwise
ParseInt(s) ==
    LET body == IntRStrip(IntLStrip(s))
        signed == Len(body) > 0 /\ body[1] \in {"-", "+"}
        digits == IF signed THEN Tail(body) ELSE body
        figures == SelectSeq(digits, IsDecimalChar)
    IN  IF IsGroupedDigits(digits) /\ Len(figures) <= IntMaxStrDigits
        THEN [ok |-> TRUE,
              value |-> IF signed /\ body[1] = "-"
                        THEN -DecimalNumber(figures) ELSE DecimalNumber(figures)]
        ELSE ValueError

-----------------------------------------------------------------------------
(* Validator (validator.py).                                               *)

\* "Invalid: Numbers only"
MsgNumbersOnly ==
    <<"I", "n", "v", "a", "l", "i", "d", ":", " ", "N", "u", "m", "b", "e", "r", "s", " ", "o", "n", "l", "y">>
\* "Invalid: Min value is "
MsgMinPrefix ==
    <<"I", "n", "v", "a", "l", "i", "d", ":", " ", "M", "i", "n", " ", "v", "a", "l", "u", "e", " ", "i", "s", " ">>
\* "Invalid: Max value is "
MsgMaxPrefix ==
    <<"I", "n", "v", "a", "l", "i", "d", ":", " ", "M", "a", "x", " ", "v", "a", "l", "u", "e", " ", "i", "s", " ">>

\* what validate() returns
Result(is_valid, message) == [is_valid |-> is_valid, message |-> message]

\* the empty test that treats only "" as empty (mutant)
IsEmptyInputExact(input_str) == input_str = EmptyText

\* not input_str or input_str.strip() == ""
IsEmptyInput(input_str) == input_str = EmptyText \/ Strip(input_str) = EmptyText

\* the character test that takes "+" for a sign as well (mutant)
HasNonNumericAllowsPlus(stripped) ==
    IF StartsWithMinus(stripped) \/ (Len(stripped) > 0 /\ stripped[1] = "+")
    THEN ~IsDigit(Tail(stripped))
    ELSE ~IsDigit(stripped)

\* the test for non-numeric characters: after a leading "-", digits only
HasNonNumeric(stripped) ==
    IF StartsWithMinus(stripped)
    THEN ~IsDigit(Tail(stripped))
    ELSE ~IsDigit(stripped)

\* the range check that rejects a value over the maximum without a message (mutant)
CheckRangeSilentMax(value) ==
    IF value < MIN_VALUE THEN Result(FALSE, MsgMinPrefix \o Str(MIN_VALUE))
    ELSE IF value > MAX_VALUE THEN Result(FALSE, EmptyText)
    ELSE Result(TRUE, EmptyText)

\* the range check of validate()
CheckRange(value) ==
    IF value < MIN_VALUE THEN Result(FALSE, MsgMinPrefix \o Str(MIN_VALUE))
    ELSE IF value > MAX_VALUE THEN Result(FALSE, MsgMaxPrefix \o Str(MAX_VALUE))
    ELSE Result(TRUE, EmptyText)

\* Validator.validate(input_str)
Validate(input_str) ==
    IF IsEmptyInput(input_str) THEN Result(TRUE, EmptyText)
    ELSE LET stripped == Strip(input_str)
         IN  IF HasNonNumeric(stripped) THEN Result(FALSE, MsgNumbersOnly)
             ELSE IF ~ParseInt(stripped).ok THEN Result(FALSE, MsgNumbersOnly)
             ELSE CheckRange(ParseInt(stripped).value)

-----------------------------------------------------------------------------
(* The state machine: one action per call of the handler.                  *)

\* the handler as a call finds it
Self ==
    [port |-> port, serial |-> serial, status |-> status,
     error_message |-> error_message, status_callback |-> status_callback,
     trace |-> <<>>, ret |-> Returned("None", EmptyText)]

\* the call put another value in self._serial while the handle in it was open:
\* connect() assigns the new transport, or None when the open fails, and does
\* not close the transport the handler held
Overwrites(m) ==
    /\ IsConnected(Self)
    /\ \E i \in 1..Len(m.trace) :
        /\ m.trace[i].ev = "open"
        /\ \A j \in 1..(i - 1) : m.trace[j].ev # "close"

\* the handler as a call leaves it. A transport it no longer references is
\* closed when the runtime finalizes the object, at once or not at all.
HandlerBecomes(m, op, arg) ==
    \E after \in {m} :
        /\ port' = after.port
        /\ serial' = after.serial
        /\ status' = after.status
        /\ error_message' = after.error_message
        /\ status_callback' = after.status_callback
        /\ trace' = after.trace
        /\ ret' = after.ret
        /\ lastOp' = op
        /\ lastArg' = arg
        /\ abandoned' \in IF Overwrites(after) THEN {abandoned, TRUE} ELSE {abandoned}

\* a call of the handler from outside the input and send handlers of the GUI
Becomes(m, op, arg) ==
    /\ HandlerBecomes(m, op, arg)
    /\ UNCHANGED <<input_var, input_valid, validation_var, is_sending, feedback_var, updating,
                   is_windows>>

\* __init__ that reports the first status to the callback it is given (mutant)
InitNotifiesStatus ==
    /\ port \in SERIAL_PORT
    /\ serial = None
    /\ status = DISCONNECTED
    /\ error_message = EmptyText
    /\ status_callback \in BOOLEAN
    /\ trace = IF status_callback
               THEN <<NotifyEv(DISCONNECTED, EmptyText,
                               [status |-> DISCONNECTED, error_message |-> EmptyText,
                                connected |-> FALSE])>>
               ELSE <<>>
    /\ ret = Returned("None", EmptyText)
    /\ lastOp = "init"
    /\ lastArg = 0
    /\ input_var = Str(DEFAULT_VALUE)
    /\ input_valid = TRUE
    /\ validation_var = EmptyText
    /\ abandoned = FALSE
    /\ is_sending = FALSE
    /\ feedback_var = EmptyText
    /\ updating = <<>>
    /\ is_windows = (port = PortWindows)

\* SerialHandler(): __init__, with the platform's default port, with or without a callback
Init ==
    /\ port \in SERIAL_PORT
    /\ serial = None
    /\ status = DISCONNECTED
    /\ error_message = EmptyText
    /\ status_callback \in BOOLEAN
    /\ trace = <<>>
    /\ ret = Returned("None", EmptyText)
    /\ lastOp = "init"
    /\ lastArg = 0
    /\ input_var = Str(DEFAULT_VALUE)
    /\ input_valid = TRUE
    /\ validation_var = EmptyText
    /\ abandoned = FALSE
    /\ is_sending = FALSE
    /\ feedback_var = EmptyText
    /\ updating = <<>>
    /\ is_windows = (port = PortWindows)

DoConnect ==
    \E o \in OpenOutcomes : Becomes(Connect(Self, o), "connect", 0)

\* close() is called only on a handle that is present and open
CloseChoices == IF IsConnected(Self) THEN CloseOutcomes ELSE {CloseReturns}

DoDisconnect ==
    \/ Becomes(Disconnect(Self, CloseReturns), "disconnect", 0)
    \/ /\ IsConnected(Self)
       /\ \E c \in CloseRaises : Becomes(Disconnect(Self, c), "disconnect", 0)

DoRetry ==
    \E c \in CloseChoices, o \in OpenOutcomes : Becomes(Retry(Self, c, o), "retry", 0)

\* the values send() is called with: the bounds of the valid range, their
\* neighbours outside it, and values of one and two digits inside it
SendValues == {-MaxNegative, MIN_VALUE, 7, 50, MAX_VALUE, MAX_VALUE + 1}

\* write() is called only when is_connected()
WriteChoices(value) ==
    IF IsConnected(Self) THEN WriteOutcomes(Encode(Str(value)))
    ELSE {[ok |-> TRUE, error |-> NoError, written |-> 0]}

DoSend ==
    \E value \in SendValues :
        \E w \in WriteChoices(value) :
            Becomes(Send(Self, value, w), "send", value)

\* main(): serial_handler._status_callback = gui.on_status_change
SetStatusCallback ==
    /\ ~status_callback
    /\ Becomes([Self EXCEPT !.status_callback = TRUE], "set_callback", 0)

\* the transport reports itself closed: is_open of the handle turns False
TransportCloses ==
    /\ serial = OpenHandle
    /\ Becomes([Self EXCEPT !.serial = ClosedHandle], "transport_closes", 0)

Next ==
    \/ DoConnect
    \/ DoDisconnect
    \/ DoRetry
    \/ DoSend
    \/ SetStatusCallback
    \/ TransportCloses

Spec == Init /\ [][Next]_vars

-----------------------------------------------------------------------------
(* The same handler, called with every value of a range, over a transport  *)
(* that opens, closes, and takes a write whole or one byte short.          *)

SendRange == (-MaxNegative)..MaxSendValue

WholeOrShort(value) ==
    IF IsConnected(Self)
    THEN {w \in WriteOutcomes(Encode(Str(value))) :
            w.ok /\ w.written \in {Len(Str(value)) - 1, Len(Str(value))}}
    ELSE {[ok |-> TRUE, error |-> NoError, written |-> 0]}

DoSendRange ==
    \E value \in SendRange :
        \E w \in WholeOrShort(value) :
            Becomes(Send(Self, value, w), "send", value)

DoConnectOpens ==
    \E o \in {x \in OpenOutcomes : x.ok} : Becomes(Connect(Self, o), "connect", 0)

DoDisconnectCloses ==
    Becomes(Disconnect(Self, CloseReturns), "disconnect", 0)

NextSendRange ==
    \/ DoConnectOpens
    \/ DoDisconnectCloses
    \/ DoSendRange

SpecSendRange == Init /\ [][NextSendRange]_vars

-----------------------------------------------------------------------------
(* The input field: the text is written to input_var, and the trace on it  *)
(* runs _on_input_change, which validates the text.                        *)

\* the characters typed in every combination
InputChars ==
    {"0", "1", "5", "-", "+", ".", "a", "_", " ", "\t", "\r", FileSeparator,
     SuperscriptTwo, ArabicIndicThree}

RECURSIVE TextsUpTo(_, _)
\* every text of up to n characters of chars
TextsUpTo(chars, n) ==
    IF n = 0 THEN {EmptyText}
    ELSE LET shorter == TextsUpTo(chars, n - 1)
         IN  shorter \cup {Append(x, c) : x \in shorter, c \in chars}

\* k zeros
Zeros(k) == [i \in 1..k |-> "0"]

\* the decimal text of v with k zeros before its digits
ZeroPadded(v, k) ==
    IF v < 0 THEN <<"-">> \o Zeros(k) \o NatStr(-v) ELSE Zeros(k) \o NatStr(v)

DecimalTexts ==
    {ZeroPadded(v, k) : v \in (MIN_VALUE - MaxBelow)..(MAX_VALUE + MaxAbove),
                        k \in 0..MaxLeadingZeros}

\* the whitespace put before and after a text
PadChars == {" ", "\t", "\n", "\r", "U+00A0", FileSeparator}

PaddedTexts ==
    {before \o Str(v) \o after :
        v \in SendValues,
        before \in TextsUpTo(PadChars, MaxPad),
        after \in TextsUpTo(PadChars, MaxPad)}

\* a text of as many digits as int() reads, and texts of one digit more:
\* zeros, a number above the range and a number below it
LongTexts ==
    {Zeros(IntMaxStrDigits - 1) \o <<"7">>,
     Zeros(IntMaxStrDigits + 1),
     <<"1">> \o Zeros(IntMaxStrDigits),
     <<"-", "1">> \o Zeros(IntMaxStrDigits)}

InputTexts ==
    TextsUpTo(InputChars, MaxInputLen) \cup DecimalTexts \cup PaddedTexts \cup LongTexts

\* a text has been written to the input field and its trace has not run yet
InitValidate ==
    /\ port \in SERIAL_PORT
    /\ serial = None
    /\ status = DISCONNECTED
    /\ error_message = EmptyText
    /\ status_callback \in BOOLEAN
    /\ trace = <<>>
    /\ ret = Returned("None", EmptyText)
    /\ lastOp = "init"
    /\ lastArg = 0
    /\ input_var \in InputTexts
    /\ input_valid = TRUE
    /\ validation_var = EmptyText
    /\ abandoned = FALSE
    /\ is_sending = FALSE
    /\ feedback_var = EmptyText
    /\ updating = <<>>
    /\ is_windows = (port = PortWindows)

\* _on_input_change: validate the text and keep the result. The enabled state
\* it then gives the Send button is display only: no code reads it back.
OnInputChange ==
    /\ \E result \in {Validate(input_var)} :
        /\ input_valid' = result.is_valid
        /\ validation_var' = result.message
    /\ lastOp' = "input_change"
    /\ UNCHANGED <<port, serial, status, error_message, status_callback, trace, ret,
                   lastArg, input_var, abandoned, is_sending, feedback_var, updating,
                   is_windows>>

SpecValidate == InitValidate /\ [][OnInputChange]_vars

-----------------------------------------------------------------------------
(* The window (gui.py): the input field, the Send button, the Retry button *)
(* and, on Windows, the port list with its Connect button, over the        *)
(* handler as main() wires them. Each click handler calls root.update()    *)
(* before it calls the handler, and root.update() runs the handlers of the *)
(* events that are pending, a click handler among them: every click        *)
(* handler is split there, and the handlers inside root.update() form a    *)
(* stack.                                                                  *)

\* the click handlers that can be inside root.update() at the same time
MaxNesting == 2

\* "Sending..."
MsgSending ==
    <<"S", "e", "n", "d", "i", "n", "g", ".", ".", ".">>
\* "Error: Invalid input"
MsgInvalidInput ==
    <<"E", "r", "r", "o", "r", ":", " ", "I", "n", "v", "a", "l", "i", "d", " ", "i", "n", "p", "u", "t">>
\* "Reconnected successfully"
MsgReconnected ==
    <<"R", "e", "c", "o", "n", "n", "e", "c", "t", "e", "d", " ", "s", "u", "c", "c", "e", "s", "s", "f", "u", "l", "l", "y">>
\* "Reconnection failed"
MsgReconnectionFailed ==
    <<"R", "e", "c", "o", "n", "n", "e", "c", "t", "i", "o", "n", " ", "f", "a", "i", "l", "e", "d">>
\* "Connected to "
MsgConnectedTo ==
    <<"C", "o", "n", "n", "e", "c", "t", "e", "d", " ", "t", "o", " ">>
\* "Connection failed"
MsgConnectionFailed ==
    <<"C", "o", "n", "n", "e", "c", "t", "i", "o", "n", " ", "f", "a", "i", "l", "e", "d">>
\* "No ports found"
NoPortsFound ==
    <<"N", "o", " ", "p", "o", "r", "t", "s", " ", "f", "o", "u", "n", "d">>

\* a port of the list that is not the default port: "COM7"
PortListed ==
    <<"C", "O", "M", "7">>

\* what the port list has selected: a port that was found, or the entry
\* _refresh_ports puts there when none was
PortSelections == {PortWindows, PortListed, NoPortsFound}

\* the texts the user leaves in the input field: nothing, whitespace, values
\* inside and outside the range, with whitespace around, with leading zeros,
\* with an underscore, and texts that are no number
EditTexts ==
    {EmptyText, <<" ">>, <<"\r">>, <<FileSeparator>>,
     <<" ", "7", " ">>, <<"5", FileSeparator>>, ZeroPadded(7, 2),
     <<"1", "_", "0">>, <<"a">>, <<"-">>}
    \cup {Str(v) : v \in SendValues}

\* serial.Serial(...) opens the port or fails to find it
GuiOpenOutcomes ==
    {o \in OpenOutcomes :
        o.ok \/ (o.error.kind = SerialException /\ o.error.text = ErrNoSuchFile)}

\* main() up to gui.run(): the handler on the platform's port, the window on
\* it, the callback set, and on a system other than Windows the first connect()
InitGui ==
    /\ is_windows \in BOOLEAN
    /\ \E o \in GuiOpenOutcomes :
        \E wired \in {[port |-> IF is_windows THEN PortWindows ELSE PortLinux,
                       serial |-> None, status |-> DISCONNECTED,
                       error_message |-> EmptyText, status_callback |-> TRUE,
                       trace |-> <<>>, ret |-> Returned("None", EmptyText)]} :
            \E after \in {IF is_windows THEN wired ELSE Connect(wired, o)} :
                /\ port = after.port
                /\ serial = after.serial
                /\ status = after.status
                /\ error_message = after.error_message
                /\ status_callback = after.status_callback
                /\ trace = after.trace
                /\ ret = after.ret
    /\ lastOp = IF is_windows THEN "set_callback" ELSE "connect"
    /\ lastArg = 0
    /\ input_var = Str(DEFAULT_VALUE)
    /\ input_valid = TRUE
    /\ validation_var = EmptyText
    /\ abandoned = FALSE
    /\ is_sending = FALSE
    /\ feedback_var = EmptyText
    /\ updating = <<>>

\* the click handler handler is the innermost one inside root.update()
InsideUpdate(handler) ==
    Len(updating) > 0 /\ updating[Len(updating)].handler = handler

\* the click handler calls root.update(); selected_port is its local variable
EntersUpdate(handler, selected_port) ==
    /\ Len(updating) < MaxNesting
    /\ updating' = Append(updating, [handler |-> handler, selected_port |-> selected_port])

\* root.update() returns to the innermost click handler, which runs to its end
LeavesUpdate == updating' = SubSeq(updating, 1, Len(updating) - 1)

\* a click handler that returns without a call of the handler
ReturnsAtOnce(op) ==
    /\ lastOp' = op
    /\ lastArg' = 0
    /\ trace' = <<>>
    /\ ret' = Returned("None", EmptyText)
    /\ UNCHANGED <<port, serial, status, error_message, status_callback, abandoned>>

\* the user edits the input field: the text is written to input_var and the
\* trace on it runs _on_input_change
EditInput ==
    \E input_text \in EditTexts :
        /\ input_var' = input_text
        /\ \E result \in {Validate(input_text)} :
            /\ input_valid' = result.is_valid
            /\ validation_var' = result.message
        /\ lastOp' = "input_change"
        /\ UNCHANGED <<port, serial, status, error_message, status_callback, trace, ret,
                       lastArg, abandoned, is_sending, feedback_var, updating, is_windows>>

\* _on_connect_click up to root.update(): nothing when no port is selected,
\* else disconnect() and the selected port given to the handler; an error
\* disconnect() lets out ends the click handler
OnConnectClick ==
    /\ is_windows
    /\ \E selected_port \in PortSelections :
        IF selected_port = EmptyText \/ selected_port = NoPortsFound
        THEN ReturnsAtOnce("connect_click") /\ UNCHANGED updating
        ELSE \E c \in CloseChoices :
                \E after \in {Disconnect(Self, c)} :
                    IF after.ret.raised
                    THEN /\ HandlerBecomes(after, "connect_click", 0)
                         /\ UNCHANGED updating
                    ELSE /\ HandlerBecomes([after EXCEPT !.port = selected_port],
                                           "connect_click", 0)
                         /\ EntersUpdate("connect_click", selected_port)
    /\ UNCHANGED <<input_var, input_valid, validation_var, is_sending, feedback_var,
                   is_windows>>

\* _on_connect_click from root.update() on: connect(), then the feedback
ConnectClickConnects ==
    /\ InsideUpdate("connect_click")
    /\ \E o \in GuiOpenOutcomes :
        \E after \in {Connect(Self, o)} :
            /\ HandlerBecomes(after, "connect_click_done", 0)
            /\ feedback_var' =
                IF after.ret.raised THEN feedback_var
                ELSE IF after.ret.value = "True"
                     THEN MsgConnectedTo \o updating[Len(updating)].selected_port
                     ELSE MsgConnectionFailed
    /\ LeavesUpdate
    /\ UNCHANGED <<input_var, input_valid, validation_var, is_sending, is_windows>>

\* _on_retry_click up to root.update()
OnRetryClick ==
    /\ ReturnsAtOnce("retry_click")
    /\ EntersUpdate("retry_click", EmptyText)
    /\ UNCHANGED <<input_var, input_valid, validation_var, is_sending, feedback_var,
                   is_windows>>

\* _on_retry_click from root.update() on: retry(), then the feedback; an error
\* retry() lets out ends the click handler
RetryClickRetries ==
    /\ InsideUpdate("retry_click")
    /\ \E c \in CloseChoices, o \in GuiOpenOutcomes :
        \E after \in {Retry(Self, c, o)} :
            /\ HandlerBecomes(after, "retry_click_done", 0)
            /\ feedback_var' = IF after.ret.raised THEN feedback_var
                               ELSE IF after.ret.value = "True" THEN MsgReconnected
                               ELSE MsgReconnectionFailed
    /\ LeavesUpdate
    /\ UNCHANGED <<input_var, input_valid, validation_var, is_sending, is_windows>>

\* _on_send_click up to root.update(): return when sending or when the input
\* is invalid, else set _is_sending and show "Sending..."
OnSendClick ==
    /\ ReturnsAtOnce("send_click")
    /\ IF is_sending \/ ~input_valid
       THEN UNCHANGED <<is_sending, feedback_var, updating>>
       ELSE /\ is_sending' = TRUE
            /\ feedback_var' = MsgSending
            /\ EntersUpdate("send_click", EmptyText)
    /\ UNCHANGED <<input_var, input_valid, validation_var, is_windows>>

\* _on_send_click from root.update() on: int() of the input field, send(value)
\* and its message as feedback, or "Error: Invalid input" on ValueError; finally
\* _is_sending is reset
SendClickSends ==
    /\ InsideUpdate("send_click")
    /\ \E value \in {ParseInt(input_var)} :
        IF value.ok
        THEN \E w \in WriteChoices(value.value) :
                \E after \in {Send(Self, value.value, w)} :
                    /\ HandlerBecomes(after, "send_click_done", value.value)
                    /\ feedback_var' = after.ret.message
        ELSE /\ ReturnsAtOnce("send_click_done")
             /\ feedback_var' = MsgInvalidInput
    /\ is_sending' = FALSE
    /\ LeavesUpdate
    /\ UNCHANGED <<input_var, input_valid, validation_var, is_windows>>

NextGui ==
    \/ EditInput
    \/ OnConnectClick
    \/ ConnectClickConnects
    \/ OnRetryClick
    \/ RetryClickRetries
    \/ OnSendClick
    \/ SendClickSends
    \/ TransportCloses

SpecGui == InitGui /\ [][NextGui]_vars

-----------------------------------------------------------------------------
(* Properties.                                                             *)

\* the transport handle is present and open
HandleOpen == serial.present /\ serial.is_open

IsNotify(e) == e.ev = "notify"
IsOpen(e) == e.ev = "open"
IsClose(e) == e.ev = "close"
IsWrite(e) == e.ev = "write"

\* the calls of one kind the last operation made
Notifications == SelectSeq(trace, IsNotify)
Opens == SelectSeq(trace, IsOpen)
Closes == SelectSeq(trace, IsClose)
Writes == SelectSeq(trace, IsWrite)

\* the operations that run connect()
ConnectingOps == {"connect", "retry"}

\* C1: in every reachable state, status = Connected if and only if the transport
\* handle is present and open (in particular after connect() then disconnect()).
C1_ConnectedIffHandleOpen ==
    (status = CONNECTED) <=> HandleOpen

\* C2: connect() ends in one of two outcomes: the open succeeded, status is
\* Connected, is_connected() holds and it returned True; or the open failed,
\* status is Error, no handle is referenced and it returned False. It returns
\* True iff status is Connected, and status is never left at Connecting.
C2_ConnectOutcome ==
    /\ status # CONNECTING
    /\ lastOp = "connect" =>
        /\ ~ret.raised
        /\ Len(Opens) = 1
        /\ Opens[1].ok =>
            status = CONNECTED /\ HandleOpen /\ ret.value = "True"
        /\ ~Opens[1].ok =>
            status = ERROR /\ serial = None /\ ret.value = "False"
        /\ (ret.value = "True") <=> (status = CONNECTED)
        /\ ret.value \in {"True", "False"}

\* C2 witness: connect() on a connected handler fails with an error that is not a
\* SerialException.
C2_Witness ==
    /\ lastOp = "connect"
    /\ Len(Opens) = 1
    /\ ~Opens[1].ok
    /\ Opens[1].error.kind = OtherException
    /\ status = ERROR
    /\ ret.value = "False"

\* the statuses a run of connect() reports, given what the open did
ConnectReports(open) ==
    <<CONNECTING, IF open.ok THEN CONNECTED ELSE ERROR>>

\* C3: with a callback registered, every status change calls it exactly once,
\* with the new status and message: a run of connect() gives exactly two calls,
\* Connecting before the transport open and then Connected or Error after it,
\* and an operation that makes no call leaves the status as it was.
C3_Notified ==
    [][(status_callback' /\ lastOp' # "set_callback") =>
        LET n == SelectSeq(trace', IsNotify)
            o == SelectSeq(trace', IsOpen)
        IN  /\ Len(o) = 1 =>
                /\ Len(n) = 2
                /\ [i \in 1..2 |-> n[i].status] = ConnectReports(o[1])
                /\ \E i \in 1..Len(trace') :
                    /\ IsNotify(trace'[i]) /\ trace'[i].status = CONNECTING
                    /\ IsOpen(trace'[i + 1])
                    /\ IsNotify(trace'[i + 2])
                    /\ i + 2 = Len(trace')
                /\ n[2].status = status' /\ n[2].message = error_message'
            /\ lastOp' = "connect" => Len(o) = 1
            /\ Len(o) = 0 =>
                /\ Len(n) = 0
                /\ status' = status
                /\ error_message' = error_message
    ]_vars

\* C3 witness: a failed connect() with a callback registered made two calls.
C3_Witness ==
    /\ lastOp = "connect"
    /\ status_callback
    /\ Len(Notifications) = 2
    /\ Notifications[1].status = CONNECTING
    /\ Notifications[2].status = ERROR

\* C4: after disconnect() in any state no handle is referenced and
\* is_connected() is False; a handle that was present and open was closed
\* exactly once and otherwise close was not called, and a disconnect() that
\* follows a disconnect() closes nothing.
C4_DisconnectReleases ==
    [][lastOp' = "disconnect" =>
        LET closes == SelectSeq(trace', IsClose)
        IN  /\ serial' = None
            /\ ~(serial'.present /\ serial'.is_open)
            /\ Len(closes) = IF HandleOpen THEN 1 ELSE 0
            /\ Len(trace') = Len(closes)
            /\ lastOp = "disconnect" => Len(closes) = 0
    ]_vars

\* "not connected"
LowNotConnected ==
    <<"n", "o", "t", " ", "c", "o", "n", "n", "e", "c", "t", "e", "d">>

\* C5: send(v) while is_connected() is False (no handle, or a handle that
\* reports itself closed) returns failure with a "not connected" message and
\* makes no transport write.
C5_SendNotConnected ==
    [][(lastOp' = "send" /\ ~HandleOpen) =>
        /\ ~ret'.raised
        /\ ret'.value = "False"
        /\ Contains(Lower(ret'.message), LowNotConnected)
        /\ trace' = <<>>
    ]_vars

\* C5 witness: send() on a handler whose handle reports itself closed.
C5_Witness ==
    /\ lastOp = "send"
    /\ serial = ClosedHandle
    /\ ret.value = "False"
    /\ ret.message = MsgNotConnected
    /\ trace = <<>>

\* the bytes "0".."9" of ASCII
AsciiDigits == 48..57

RECURSIVE DecimalOf(_)
\* the number a sequence of ASCII digit bytes writes in base 10
DecimalOf(bytes) ==
    IF Len(bytes) = 0 THEN 0
    ELSE 10 * DecimalOf(SubSeq(bytes, 1, Len(bytes) - 1)) + (bytes[Len(bytes)] - 48)

\* the text a sequence of ASCII digit bytes reads as
DigitText(bytes) == [i \in 1..Len(bytes) |-> DigitChars[bytes[i] - 47]]

\* the last operation was a send() whose one write the transport answered with a count
WriteAnswered == lastOp = "send" /\ Len(Writes) >= 1 /\ Writes[1].ok

\* C6: for every v in 0..100, send(v) on a connected handler whose transport
\* takes the whole write makes exactly one write, of the decimal ASCII digits of
\* v without leading zeros, one byte a digit, and returns success with a
\* message that contains the decimal value.
C6_SendWritesDecimalDigits ==
    (/\ WriteAnswered
     /\ lastArg \in MIN_VALUE..MAX_VALUE
     /\ Writes[1].written = Len(Writes[1].data)) =>
        LET data == Writes[1].data
        IN  /\ Len(trace) = 1
            /\ \A i \in 1..Len(data) : data[i] \in AsciiDigits
            /\ Len(data) >= 1
            /\ Len(data) = 1 \/ data[1] # 48
            /\ DecimalOf(data) = lastArg
            /\ ~ret.raised
            /\ ret.value = "True"
            /\ Contains(ret.message, DigitText(data))

\* C6 witness: send(100) wrote the three bytes "100" and succeeded.
C6_Witness ==
    /\ WriteAnswered
    /\ lastArg = MAX_VALUE
    /\ Writes[1].data = <<49, 48, 48>>
    /\ Writes[1].written = 3
    /\ ret.value = "True"

\* "incomplete transmission"
LowIncomplete ==
    <<"i", "n", "c", "o", "m", "p", "l", "e", "t", "e", " ",
      "t", "r", "a", "n", "s", "m", "i", "s", "s", "i", "o", "n">>

\* C7: when the transport reports a byte count other than the number of bytes
\* it was given, send returns failure with an "incomplete transmission" message
\* and has made exactly one write: the write is not attempted again.
C7_ShortWriteFails ==
    (WriteAnswered /\ Writes[1].written # Len(Writes[1].data)) =>
        /\ ~ret.raised
        /\ ret.value = "False"
        /\ Contains(Lower(ret.message), LowIncomplete)
        /\ Len(trace) = 1

\* C7 witness: send(50) of which the transport took one byte of two.
C7_Witness ==
    /\ WriteAnswered
    /\ lastArg = 50
    /\ Len(Writes[1].data) = 2
    /\ Writes[1].written = 1
    /\ ret.value = "False"

\* "Error"
TextError == <<"E", "r", "r", "o", "r">>

\* C8: when the transport write raises, whatever the error, send returns failure
\* with a message that starts with "Error" and carries the text of the error,
\* and lets no exception out.
C8_WriteErrorReturned ==
    (lastOp = "send" /\ Len(Writes) >= 1 /\ ~Writes[1].ok) =>
        /\ ~ret.raised
        /\ ret.value = "False"
        /\ Len(ret.message) >= Len(TextError)
        /\ SubSeq(ret.message, 1, Len(TextError)) = TextError
        /\ SubSeq(ret.message, Len(ret.message) - Len(Writes[1].error.text) + 1,
                  Len(ret.message)) = Writes[1].error.text
        /\ Len(trace) = 1

\* C8 witness: the write raised an error that is not a SerialException.
C8_Witness ==
    /\ lastOp = "send"
    /\ Len(Writes) = 1
    /\ ~Writes[1].ok
    /\ Writes[1].error.kind = OtherException
    /\ Writes[1].error.text = ErrWriteTimeout
    /\ ret.value = "False"

\* C9: send changes no connection state, whatever its outcome: status, the
\* error message and the handle are as before, and the callback is not called.
C9_SendKeepsState ==
    [][lastOp' = "send" =>
        /\ status' = status
        /\ error_message' = error_message
        /\ serial' = serial
        /\ Len(SelectSeq(trace', IsNotify)) = 0
    ]_vars

\* C9 witness: a write that failed or fell short, with status still Connected.
C9_Witness ==
    /\ lastOp = "send"
    /\ Len(Writes) = 1
    /\ ~Writes[1].ok \/ Writes[1].written < Len(Writes[1].data)
    /\ ret.value = "False"
    /\ status = CONNECTED
    /\ HandleOpen

\* the message the classification gives the error text, for the port attempted
Classified(p, text) ==
    LET t == Lower(text)
    IN  CASE Contains(t, NeedleNoSuchFile) \/ Contains(t, NeedleNotFound) ->
                MsgSerialPortPrefix \o p \o MsgNotFoundSuffix
          [] /\ ~(Contains(t, NeedleNoSuchFile) \/ Contains(t, NeedleNotFound))
             /\ Contains(t, NeedlePermissionDenied) ->
                MsgPermissionDenied
          [] /\ ~(Contains(t, NeedleNoSuchFile) \/ Contains(t, NeedleNotFound))
             /\ ~Contains(t, NeedlePermissionDenied)
             /\ Contains(t, NeedleAccessIsDenied) ->
                MsgPortInUse
          [] OTHER -> text

\* a run of connect() whose open failed
OpenFailed == lastOp \in ConnectingOps /\ Len(Opens) = 1 /\ ~Opens[1].ok

\* C10 as stated: after every failed connect(), whatever the kind of error, the
\* error message is the classification of the error text.
C10_AnyErrorClassified ==
    OpenFailed => error_message = Classified(Opens[1].port, Opens[1].error.text)

\* C10 as amended: after a connect() that failed with a SerialException the
\* error message is the classification of the error text (no such file or not
\* found, then permission denied, then access is denied, else the text itself,
\* matched without regard to case); after one that failed with any other error
\* it is the error text itself, unclassified.
C10_SerialExceptionClassified ==
    OpenFailed =>
        /\ Opens[1].port = port
        /\ Opens[1].error.kind = SerialException =>
            error_message = Classified(Opens[1].port, Opens[1].error.text)
        /\ Opens[1].error.kind # SerialException =>
            error_message = Opens[1].error.text

\* C10 witness: a SerialException whose text has both "permission denied" and
\* "not found" is reported as the port not found.
C10_Witness ==
    /\ OpenFailed
    /\ Opens[1].error.kind = SerialException
    /\ Opens[1].error.text = ErrPermissionNotFound
    /\ error_message = MsgSerialPortPrefix \o port \o MsgNotFoundSuffix

\* C11 as stated: in every reachable state the error message is non-empty if
\* and only if status is Error.
C11_MessageIffError ==
    (error_message # EmptyText) <=> (status = ERROR)

\* C11 as amended: the error message is empty whenever status is not Error, and
\* after a failed connect() (status Error) it is empty exactly when the text of
\* the transport error is empty.
C11_MessageOnlyInError ==
    /\ status # ERROR => error_message = EmptyText
    /\ OpenFailed =>
        /\ status = ERROR
        /\ (error_message = EmptyText) <=> (Opens[1].error.text = EmptyText)

\* C11 witness: a connect() that failed with an error of empty text left
\* status Error with an empty message.
C11_Witness ==
    /\ OpenFailed
    /\ Opens[1].error.text = EmptyText
    /\ status = ERROR
    /\ error_message = EmptyText

\* C12: no operation lets a failure of the transport's open, close or write
\* out to its caller: every call returns.
C12_NoErrorEscapes ==
    ~ret.raised

\* the handler fields and the record of the call agree with the record m
Left(m) ==
    /\ port' = m.port
    /\ serial' = m.serial
    /\ status' = m.status
    /\ error_message' = m.error_message
    /\ status_callback' = m.status_callback
    /\ trace' = m.trace
    /\ ret' = m.ret

\* C13: retry() does what disconnect() followed by connect() does: the same
\* transport calls and callbacks in the same order, the same final state and
\* connect()'s result (and what disconnect() does alone where it lets an error
\* out); from Error, when the open succeeds, it returns True with status
\* Connected.
C13_RetryIsDisconnectThenConnect ==
    [][lastOp' = "retry" =>
        /\ \E c \in {x \in CloseOutcomes :
                        \A i \in 1..Len(trace') :
                            IsClose(trace'[i]) => x.error = trace'[i].error},
              o \in {x \in OpenOutcomes :
                        \A i \in 1..Len(trace') :
                            IsOpen(trace'[i]) => x.error = trace'[i].error} :
            LET d == Disconnect(Self, c)
            IN  IF d.ret.raised THEN Left(d) ELSE Left(Connect(d, o))
        /\ LET o == SelectSeq(trace', IsOpen)
               c == SelectSeq(trace', IsClose)
           IN  /\ Len(c) = IF HandleOpen THEN 1 ELSE 0
               /\ Len(c) = 1 => IsClose(trace'[1])
               /\ (status = ERROR /\ Len(o) = 1 /\ o[1].ok) =>
                    /\ ret' = Returned("True", EmptyText)
                    /\ status' = CONNECTED
                    /\ serial' = OpenHandle
    ]_vars

\* C13 witness: retry() on a connected handler closed the handle, then opened.
C13_Witness ==
    /\ lastOp = "retry"
    /\ Len(trace) >= 2
    /\ IsClose(trace[1]) /\ trace[1].ok
    /\ Len(Opens) = 1 /\ Opens[1].ok
    /\ status = CONNECTED
    /\ ret.value = "True"

\* C14: disconnect() calls no callback and leaves status and the error message
\* as they were; all it does is close an open handle and drop the reference.
C14_DisconnectKeepsStatus ==
    [][lastOp' = "disconnect" =>
        /\ status' = status
        /\ error_message' = error_message
        /\ port' = port
        /\ status_callback' = status_callback
        /\ \A i \in 1..Len(trace') : IsClose(trace'[i])
        /\ Len(trace') = IF HandleOpen THEN 1 ELSE 0
        /\ ~ret'.raised => serial' = None
    ]_vars

\* C14 witness: disconnect() of a handler in Error with a callback registered.
C14_Witness ==
    /\ lastOp = "disconnect"
    /\ status = ERROR
    /\ error_message # EmptyText
    /\ status_callback
    /\ trace = <<>>
    /\ serial = None

-----------------------------------------------------------------------------
(* The validator's claims, read off the state after _on_input_change ran:  *)
(* input_var is the text validated, input_valid and validation_var the     *)
(* result. The helpers below are the claims' own reading of that text.     *)

Validated == lastOp = "input_change"

\* c is one of 0..9
IsAsciiDigit(c) == \E i \in 1..Len(DigitChars) : DigitChars[i] = c

\* c is a decimal digit: one of 0..9, or a decimal digit of another script
IsDecimalDigit(c) == IsAsciiDigit(c) \/ c = ArabicIndicThree

\* s is a non-empty run of the digits 0..9
IsDigitRun(s) == Len(s) > 0 /\ \A i \in 1..Len(s) : IsAsciiDigit(s[i])

RECURSIVE DigitRunValue(_)
\* the number the digits of s write
DigitRunValue(s) ==
    IF Len(s) = 0 THEN 0
    ELSE 10 * DigitRunValue(SubSeq(s, 1, Len(s) - 1))
         + (CHOOSE d \in 0..9 : DigitChars[d + 1] = s[Len(s)])

\* s is the decimal text of an integer, leading zeros allowed
IsDecimalText(s) ==
    IF Len(s) > 0 /\ s[1] = "-" THEN IsDigitRun(Tail(s)) ELSE IsDigitRun(s)

\* the digits of the run s from its first digit that is not a leading zero
Significant(s) ==
    SubSeq(s, CHOOSE i \in 1..Len(s) :
                  /\ s[i] # "0" \/ i = Len(s)
                  /\ \A j \in 1..(i - 1) : s[j] = "0",
              Len(s))

\* the digit run s writes a number greater than k: it has more significant
\* digits than k, or as many at most and a greater value
WritesMoreThan(s, k) ==
    \/ Len(Significant(s)) > Len(NatStr(k))
    \/ DigitRunValue(Significant(s)) > k

\* the decimal text s writes an integer of MIN_VALUE..MAX_VALUE
WritesInRange(s) ==
    IF s[1] = "-"
    THEN ~WritesMoreThan(Tail(s), -MIN_VALUE)
    ELSE ~WritesMoreThan(s, MAX_VALUE) /\ DigitRunValue(Significant(s)) >= MIN_VALUE

\* the decimal text s writes an integer below MIN_VALUE
WritesBelowMin(s) == s[1] = "-" /\ WritesMoreThan(Tail(s), -MIN_VALUE)

\* the decimal text s writes an integer above MAX_VALUE
WritesAboveMax(s) == s[1] # "-" /\ WritesMoreThan(s, MAX_VALUE)

\* c is whitespace: a character strip() removes
IsWhitespace(c) == c \in WhitespaceChars

\* s without the whitespace before its first and after its last other character
Trimmed(s) ==
    IF \A i \in 1..Len(s) : IsWhitespace(s[i]) THEN EmptyText
    ELSE SubSeq(s, CHOOSE i \in 1..Len(s) :
                       /\ ~IsWhitespace(s[i])
                       /\ \A j \in 1..(i - 1) : IsWhitespace(s[j]),
                   CHOOSE i \in 1..Len(s) :
                       /\ ~IsWhitespace(s[i])
                       /\ \A j \in (i + 1)..Len(s) : IsWhitespace(s[j]))

\* s has a character that is neither a decimal digit nor a "-" in first place,
\* or is a lone "-"
HasNonDigit(s) ==
    \/ \E i \in 1..Len(s) : ~IsDecimalDigit(s[i]) /\ ~(i = 1 /\ s[i] = "-")
    \/ s = <<"-">>

TextNumbersOnly ==
    <<"N", "u", "m", "b", "e", "r", "s", " ", "o", "n", "l", "y">>

SaysNumbersOnly == ~input_valid /\ Contains(validation_var, TextNumbersOnly)

\* C15: after validating the decimal text of an integer in 0..100, with or
\* without leading zeros, the result is valid and the message is empty.
C15_InRangeValid ==
    (Validated /\ IsDigitRun(input_var) /\ WritesInRange(input_var))
    => (input_valid /\ validation_var = EmptyText)

\* C16: after validating the decimal text of an integer below 0 the result is
\* invalid and the message names the minimum, 0; of an integer above 100 it is
\* invalid and the message names the maximum, 100.
C16_OutOfRangeNamesBound ==
    (Validated /\ IsDecimalText(input_var)) =>
        LET said == Lower(validation_var)
        IN  /\ WritesBelowMin(input_var) =>
                /\ ~input_valid
                /\ Contains(said, <<"m", "i", "n">>)
                /\ ~Contains(said, <<"m", "a", "x">>)
                /\ Contains(said, <<" ">> \o NatStr(MIN_VALUE))
            /\ WritesAboveMax(input_var) =>
                /\ ~input_valid
                /\ Contains(said, <<"m", "a", "x">>)
                /\ ~Contains(said, <<"m", "i", "n">>)
                /\ Contains(said, <<" ">> \o NatStr(MAX_VALUE))

\* C17 as stated: after validating a text with a non-digit character other than
\* one leading "-", or a lone "-", the result is invalid and says "Numbers only".
C17_NonDigitInvalid ==
    (Validated /\ HasNonDigit(input_var)) => SaysNumbersOnly

\* C17: after validating a text that, with the whitespace around it removed,
\* has a non-digit character other than one leading "-", or is a lone "-", the
\* result is invalid and says "Numbers only".
C17_NonDigitAfterTrimInvalid ==
    (Validated /\ HasNonDigit(Trimmed(input_var))) => SaysNumbersOnly

C17_Witness ==
    /\ Validated
    /\ input_var = <<" ", "+", "5">>
    /\ SaysNumbersOnly

\* C18: after validating the empty text or a text of whitespace only, the
\* result is valid and the message is empty.
C18_BlankValid ==
    (Validated /\ \A i \in 1..Len(input_var) : IsWhitespace(input_var[i]))
    => (input_valid /\ validation_var = EmptyText)

C18_Witness ==
    /\ Validated
    /\ input_var = <<" ", " ", " ">>
    /\ input_valid
    /\ validation_var = EmptyText

\* C19: the result of validating a text is the result of validating the text
\* without the whitespace around it, and whitespace left between its other
\* characters makes the result invalid, "Numbers only".
C19_SurroundingWhitespaceIgnored ==
    Validated =>
        LET trimmed == Trimmed(input_var)
        IN  /\ Result(input_valid, validation_var) = Validate(trimmed)
            /\ (\E i \in 1..Len(trimmed) : IsWhitespace(trimmed[i])) => SaysNumbersOnly

C19_Witness ==
    /\ Validated
    /\ input_var = <<"\t", "5", "0", " ">>
    /\ input_valid
    /\ validation_var = EmptyText

\* C20: after validating any text the message is empty exactly when the result
\* is valid, and an invalid result carries the numbers-only, the minimum or the
\* maximum message.
C20_MessageIffInvalid ==
    Validated =>
        /\ (validation_var = EmptyText) <=> input_valid
        /\ ~input_valid =>
            validation_var \in {MsgNumbersOnly,
                                MsgMinPrefix \o NatStr(MIN_VALUE),
                                MsgMaxPrefix \o NatStr(MAX_VALUE)}

C20_Witness ==
    /\ Validated
    /\ input_var = <<"5", "0", "0">>
    /\ ~input_valid
    /\ validation_var # EmptyText

-----------------------------------------------------------------------------
\* C21: a handler just constructed has status Disconnected, is not connected,
\* references no handle and has an empty error message, and its construction
\* opened, closed or wrote no transport and called no callback.
C21_FreshHandler ==
    lastOp = "init" =>
        /\ status = DISCONNECTED
        /\ ~HandleOpen
        /\ serial = None
        /\ error_message = EmptyText
        /\ trace = <<>>

C21_Witness ==
    /\ lastOp = "init"
    /\ status_callback
    /\ status = DISCONNECTED
    /\ trace = <<>>

-----------------------------------------------------------------------------
\* C22: between the calls of connect(), disconnect() and retry(), every
\* transport the handler opened is the one it references or has been closed.
C22_OneOpenTransport == ~abandoned

-----------------------------------------------------------------------------
\* C24: between operations the status is never Connecting, and from the first
\* call of connect() or retry() on no operation leaves the status Disconnected.
C24_DisconnectedOnlyAtStart ==
    /\ [](status # CONNECTING)
    /\ [][(status # DISCONNECTED \/ lastOp' \in ConnectingOps) => status' # DISCONNECTED]_vars

C24_Witness ==
    /\ lastOp = "disconnect"
    /\ Len(Closes) = 1
    /\ serial = None
    /\ status = CONNECTED

-----------------------------------------------------------------------------
\* C25: every call of the status callback finds the handler with the status
\* and the error message it is called with, connected when it is called with
\* Connected and not connected when it is called with Error; a call that ends
\* with the Error notification leaves no handle referenced.
C25_CallbackSeesCurrentState ==
    /\ \A i \in 1..Len(trace) :
        IsNotify(trace[i]) =>
            /\ trace[i].seen.status = trace[i].status
            /\ trace[i].seen.error_message = trace[i].message
            /\ trace[i].status = CONNECTED => trace[i].seen.connected
            /\ trace[i].status = ERROR => ~trace[i].seen.connected
    /\ (Len(trace) > 0 /\ IsNotify(trace[Len(trace)]) /\ trace[Len(trace)].status = ERROR)
        => serial = None

C25_Witness ==
    /\ lastOp = "connect"
    /\ abandoned
    /\ Len(Notifications) = 2
    /\ Notifications[2].status = ERROR
    /\ Notifications[2].message # EmptyText
    /\ Notifications[2].seen.error_message = error_message
    /\ ~Notifications[2].seen.connected
    /\ serial = None

-----------------------------------------------------------------------------
(* The send flow of the window, read off the state after a Send click has  *)
(* run to its end.                                                         *)

SendClickDone == lastOp = "send_click_done"

\* the click called send(): send() always returns a success flag
SendCalled == SendClickDone /\ ret.value \in {"True", "False"}

\* the input field is empty or holds whitespace only
InputBlank == \A i \in 1..Len(input_var) : IsWhitespace(input_var[i])

\* C23: after a Send click on a connected handler with an empty or
\* whitespace-only input field, send() was called with the default value and
\* the decimal digits of the default value were written.
C23_BlankInputSendsDefault ==
    (SendClickDone /\ InputBlank /\ HandleOpen) =>
        /\ SendCalled
        /\ lastArg = DEFAULT_VALUE
        /\ Len(Writes) = 1
        /\ \A i \in 1..Len(Writes[1].data) : Writes[1].data[i] \in AsciiDigits
        /\ DecimalOf(Writes[1].data) = DEFAULT_VALUE

\* C26: every value a Send click passes to send() is an integer in 0..100 and
\* the input field holds a text the validator accepts; a Send click while a
\* send is in progress or the input is invalid calls nothing; and _is_sending
\* is false after every Send click that ran to its end.
C26_SendsOnlyValidatedValues ==
    /\ [](SendCalled => (lastArg \in MIN_VALUE..MAX_VALUE /\ input_valid))
    /\ [][(lastOp' = "send_click" /\ (is_sending \/ ~input_valid))
            => (trace' = <<>> /\ UNCHANGED <<is_sending, feedback_var, updating>>)]_vars
    /\ [](SendClickDone => ~is_sending)

=============================================================================
